---- MODULE Spec2Model ----
(***************************************************************************)
(* Model of scripts/mbedtls_framework/config_common.py: the configuration  *)
(* table (class Config), the configuration file with its line templates    *)
(* (class ConfigFile), the settings (class Setting) and the command line   *)
(* tool (class ConfigTool).                                                *)
(*                                                                         *)
(* A Python str is a sequence of lexical atoms.  An atom is one character  *)
(* (" ", "/", "#", "(", ...) or one of the literal words the regular       *)
(* expressions of ConfigFile spell out ("define", "ifndef", "name",        *)
(* "SECTION"), which behave as runs of \w characters.  Python's None is    *)
(* the one-atom sequence <<"None">>, whose atom occurs in no text.         *)
(***************************************************************************)
EXTENDS Integers, Sequences, FiniteSets, TLC

VARIABLES
    disk,        \* path -> the physical lines of the file at that path
    orig,        \* the file system before anything was read or written
    cf,          \* ConfigFile objects: file id -> fields
    settings,    \* Config.settings: name -> Setting
    configfiles, \* Config.configfiles: list of file ids
    pc,          \* "parse" while the table is being populated, then "ready"
    pos,         \* file id -> index of the next line parse_file reads
    call,        \* the last mutating or writing call on the table and how it ended
    nops,        \* number of such calls made so far
    flips        \* number of calls that changed the active field of a Setting

vars == <<disk, orig, cf, settings, configfiles, pc, pos, call, nops, flips>>

----------------------------------------------------------------------------
(* Bounds of the model *)

\* Lines per configuration file.
MaxLines == 2
\* Lines of the second configuration file.
MaxLines2 == 1
\* Mutating and writing calls made on the table after it has been populated.
MaxOps == 3
\* The same, for the tables read from the larger set of lines (SpecText).
MaxTextOps == 2
\* Lines of the file whose parsing SpecParse follows.
MaxParseLines == 3
\* Calls made on the table after that file has been read.
MaxParseOps == 2

----------------------------------------------------------------------------
(* Text *)

None == <<"None">>

\* Python truth value of a str-or-None.
Truthy(v) == v # None /\ v # <<>>

\* Atoms matched by \s (after the line terminator has been stripped).
Space == {" ", "\t"}
\* Atoms matched by \w.
Word == {"M", "A", "B", "O", "G", "1", "2", "define", "ifndef", "name", "SECTION"}
\* Atoms matched by (?:\w|\s|,).
ArgChars == Word \cup Space \cup {","}

\* s[i], or "" past the end of s.
At(s, i) == IF i >= 1 /\ i <= Len(s) THEN s[i] ELSE ""

\* s[i..j], empty when j < i.
Sub(s, i, j) == IF j < i THEN <<>> ELSE SubSeq(s, i, j)

\* Length of the longest run of atoms of C in s that starts at index i
\* (what a greedy C* consumes there).
RECURSIVE Run(_, _, _)
Run(s, i, C) == IF i >= 1 /\ i <= Len(s) /\ s[i] \in C THEN 1 + Run(s, i + 1, C) ELSE 0

\* str.rstrip(chars)
RECURSIVE rstrip(_, _)
rstrip(s, C) == IF s # <<>> /\ s[Len(s)] \in C THEN rstrip(Sub(s, 1, Len(s) - 1), C) ELSE s

\* Whether p occurs in s as a substring (regex.search of a literal pattern).
Occurs(p, s) == \E i \in 1..(Len(s) + 1) : i + Len(p) - 1 <= Len(s) /\ Sub(s, i, i + Len(p) - 1) = p

----------------------------------------------------------------------------
(* ConfigFile: the line classifier *)

NoMatch ==
    [matched |-> FALSE, indentation |-> None, commented_out |-> None, define |-> None,
     name |-> None, arguments |-> None, separator |-> None, value |-> None,
     inclusion_guard |-> None, section |-> None]

\* re.match of _define_line_regexp at the start of line.  Every quantifier is
\* greedy and none can give back an atom that the next item accepts, so the
\* match is the one computed left to right, one group after the other:
\* i1..i7 are the indexes at which commented_out, define, the name, the
\* arguments, the separator and the value start.
define_groups(line, i1, i2, i4, i5, i6, i7) ==
    [matched |-> TRUE,
     indentation |-> Sub(line, 1, i1 - 1),
     commented_out |-> Sub(line, i1, i2 - 1),
     define |-> Sub(line, i2, i4 - 1),
     name |-> Sub(line, i4, i5 - 1),
     arguments |-> Sub(line, i5, i6 - 1),
     separator |-> Sub(line, i6, i7 - 1),
     value |-> Sub(line, i7, Len(line)),
     inclusion_guard |-> None, section |-> None]

\* (?P<separator>\s*)
define_separator(line, i1, i2, i4, i5, i6) ==
    define_groups(line, i1, i2, i4, i5, i6, i6 + Run(line, i6, Space))

\* (?P<arguments>(?:\((?:\w|\s|,)*\))?)
define_arguments(line, i1, i2, i4, i5) ==
    define_separator(line, i1, i2, i4, i5,
        IF At(line, i5) = "(" /\ At(line, i5 + 1 + Run(line, i5 + 1, ArgChars)) = ")"
        THEN i5 + Run(line, i5 + 1, ArgChars) + 2 ELSE i5)

\* (?P<name>\w+)
define_name(line, i1, i2, i4) ==
    IF Run(line, i4, Word) >= 1
    THEN define_arguments(line, i1, i2, i4, i4 + Run(line, i4, Word))
    ELSE NoMatch

\* define\s+ of (?P<define>#\s*define\s+), the word starting at i3
define_keyword(line, i1, i2, i3) ==
    IF At(line, i3) = "define" /\ Run(line, i3 + 1, Space) >= 1
    THEN define_name(line, i1, i2, i3 + 1 + Run(line, i3 + 1, Space))
    ELSE NoMatch

\* #\s* of (?P<define>#\s*define\s+)
define_hash(line, i1, i2) ==
    IF At(line, i2) = "#"
    THEN define_keyword(line, i1, i2, i2 + 1 + Run(line, i2 + 1, Space))
    ELSE NoMatch

\* (?P<commented_out>(//\s*)?)
define_commented_out(line, i1) ==
    define_hash(line, i1,
        IF At(line, i1) = "/" /\ At(line, i1 + 1) = "/"
        THEN i1 + 2 + Run(line, i1 + 2, Space) ELSE i1)

\* (?P<indentation>\s*) and the rest of _define_line_regexp
define_line_regexp(line) == define_commented_out(line, 1 + Run(line, 1, Space))

\* re.match of _ifndef_line_regexp: the literal "#ifndef " and a \w+ run.
ifndef_line_regexp(line) ==
    IF At(line, 1) = "#" /\ At(line, 2) = "ifndef" /\ At(line, 3) = " "
       /\ Run(line, 4, Word) >= 1
    THEN [NoMatch EXCEPT !.matched = TRUE,
                         !.inclusion_guard = Sub(line, 4, 3 + Run(line, 4, Word))]
    ELSE NoMatch

\* re.match of _section_line_regexp, item after item.  The group
\* (?P<section>.*) is greedy and the trailing [ */]* may match nothing, so the
\* group takes the rest of the line.
\* SECTION:\s*(?P<section>.*)[ */]*
section_keyword(line, i5) ==
    IF At(line, i5) = "SECTION" /\ At(line, i5 + 1) = ":"
    THEN [NoMatch EXCEPT !.matched = TRUE,
                         !.section = Sub(line, i5 + 2 + Run(line, i5 + 2, Space), Len(line))]
    ELSE NoMatch

\* [\\@]name\s+
section_name(line, i4) ==
    IF At(line, i4) \in {"\\", "@"} /\ At(line, i4 + 1) = "name"
       /\ Run(line, i4 + 2, Space) >= 1
    THEN section_keyword(line, i4 + 2 + Run(line, i4 + 2, Space))
    ELSE NoMatch

\* \*+\s*
section_stars(line, i2) ==
    IF Run(line, i2, {"*"}) >= 1
    THEN section_name(line, i2 + Run(line, i2, {"*"})
                               + Run(line, i2 + Run(line, i2, {"*"}), Space))
    ELSE NoMatch

\* /?
section_slash(line, i1) == section_stars(line, IF At(line, i1) = "/" THEN i1 + 1 ELSE i1)

\* \s* and the rest of _section_line_regexp
section_line_regexp(line) == section_slash(line, 1 + Run(line, 1, Space))

\* The first of three alternatives that matches.
first_match(m1, m2, m3) == IF m1.matched THEN m1 ELSE IF m2.matched THEN m2 ELSE m3

\* re.match of _config_line_regexp, the alternation of the three.
config_line_regexp(line) ==
    first_match(define_line_regexp(line), ifndef_line_regexp(line), section_line_regexp(line))

\* A template that is a str (a verbatim line).
StrTemplate(line) ==
    [isstr |-> TRUE, line |-> line, name |-> <<>>, indent |-> <<>>, middle |-> <<>>]

\* A template that is a tuple (name, indent, middle).
TupleTemplate(name, indent, middle) ==
    [isstr |-> FALSE, line |-> <<>>, name |-> name, indent |-> indent, middle |-> middle]

\* What ConfigFile._parse_line returns for None.
NoYield ==
    [yield |-> FALSE, active |-> FALSE, name |-> <<>>, value |-> <<>>,
     section |-> None, exc |-> "none"]

\* self.templates.append(line)
append_line(c, line) == [c EXCEPT !.templates = Append(@, StrTemplate(line))]

\* (mutant) A define of the inclusion guard is kept out of the settings
\* whatever its value is.
parse_matched_guard_any_value(c, line, m) ==
    IF ~m.matched THEN [c |-> append_line(c, line)] @@ NoYield
    ELSE IF Truthy(m.section)
    THEN [c |-> [append_line(c, line) EXCEPT !.current_section = m.section]] @@ NoYield
    ELSE IF Truthy(m.inclusion_guard) /\ c.inclusion_guard = None
    THEN [c |-> [append_line(c, line) EXCEPT !.inclusion_guard = m.inclusion_guard]] @@ NoYield
    ELSE IF m.name = c.inclusion_guard
    THEN [c |-> append_line(c, line)] @@ NoYield
    ELSE IF m.define = None
    THEN [c |-> c] @@ [NoYield EXCEPT !.exc = "TypeError"]
    ELSE [c |-> [c EXCEPT !.templates =
                    Append(@, TupleTemplate(m.name, m.indentation,
                                            m.define \o m.name \o m.arguments \o m.separator))],
          yield |-> TRUE, active |-> ~Truthy(m.commented_out), name |-> m.name,
          value |-> m.value, section |-> c.current_section, exc |-> "none"]

\* The body of ConfigFile._parse_line after the match m of the stripped line.
\* In the last branches a match of the #ifndef or section alternative leaves
\* the groups 'define' and 'name' at None, and None + None raises TypeError.
parse_matched(c, line, m) ==
    IF ~m.matched THEN [c |-> append_line(c, line)] @@ NoYield
    ELSE IF Truthy(m.section)
    THEN [c |-> [append_line(c, line) EXCEPT !.current_section = m.section]] @@ NoYield
    ELSE IF Truthy(m.inclusion_guard) /\ c.inclusion_guard = None
    THEN [c |-> [append_line(c, line) EXCEPT !.inclusion_guard = m.inclusion_guard]] @@ NoYield
    ELSE IF m.name = c.inclusion_guard /\ m.value = <<>>
    THEN [c |-> append_line(c, line)] @@ NoYield
    ELSE IF m.define = None
    THEN [c |-> c] @@ [NoYield EXCEPT !.exc = "TypeError"]
    ELSE [c |-> [c EXCEPT !.templates =
                    Append(@, TupleTemplate(m.name, m.indentation,
                                            m.define \o m.name \o m.arguments \o m.separator))],
          yield |-> TRUE, active |-> ~Truthy(m.commented_out), name |-> m.name,
          value |-> m.value, section |-> c.current_section, exc |-> "none"]

\* ConfigFile._parse_line on the ConfigFile c: the ConfigFile afterwards, the
\* tuple returned (yield = FALSE for None) and the exception raised, if any.
parse_line(c, rawline) ==
    parse_matched(c, rstrip(rawline, {"\r", "\n"}),
                  config_line_regexp(rstrip(rawline, {"\r", "\n"})))

\* (mutant) No space is put between middle and the value.
format_template_unspaced(setting, indent, middle) ==
    LET value == IF setting.value = None THEN <<>> ELSE setting.value
        mid == IF value # <<>> THEN middle ELSE rstrip(middle, Space)
    IN  rstrip(indent \o (IF setting.active THEN <<>> ELSE <<"/", "/">>) \o mid \o value, Space)

\* ConfigFile._format_template
format_template(setting, indent, middle) ==
    LET value == IF setting.value = None THEN <<>> ELSE setting.value
        mid == IF value # <<>>
               THEN (IF middle[Len(middle)] \notin {"\t", " "} THEN middle \o <<" ">> ELSE middle)
               ELSE rstrip(middle, Space)
    IN  rstrip(indent \o (IF setting.active THEN <<>> ELSE <<"/", "/">>) \o mid \o value, Space)

\* The line ConfigFile.write_to_stream writes for one template.
template_line(template, sett) ==
    IF template.isstr THEN template.line
    ELSE format_template(sett[template.name], template.indent, template.middle)

\* Number of leading templates that write_to_stream can render: all of them
\* unless settings[name] raises KeyError for some template.
RECURSIVE Renderable(_, _, _)
Renderable(templates, sett, i) ==
    IF i > Len(templates) THEN 0
    ELSE IF ~templates[i].isstr /\ templates[i].name \notin DOMAIN sett THEN 0
    ELSE 1 + Renderable(templates, sett, i + 1)

\* The physical lines written for the templates that can be rendered.
rendered_lines(templates, sett) ==
    [i \in 1..Renderable(templates, sett, 1) |-> template_line(templates[i], sett) \o <<"\n">>]

\* (mutant) A "#define name" line is added for a Setting that no template of
\* the file names.
write_to_stream_unanchored(templates, sett) ==
    LET G == {n \in DOMAIN sett :
                 \A i \in 1..Len(templates) : templates[i].isstr \/ templates[i].name # n}
    IN  IF G = {} THEN rendered_lines(templates, sett)
        ELSE Append(rendered_lines(templates, sett),
                    <<"#", "define", " ">> \o (CHOOSE n \in G : TRUE) \o <<"\n">>)

\* ConfigFile.write_to_stream: the physical lines written to output.
write_to_stream(templates, sett) == rendered_lines(templates, sett)

----------------------------------------------------------------------------
(* Files and names of the model *)

Files == {1, 2}
P1 == <<"p1">>
P2 == <<"p2">>
Out == <<"out">>
Paths == {P1, P2, Out}
\* No file at a path.
Absent == <<None>>

MA == <<"M", "A">>
MB == <<"M", "B">>
OC == <<"O">>
\* Names the calls are made with: two that the lines below define and one that
\* no line defines.
Names == {MA, MB, OC}
\* Values the calls are made with.
Values == {<<>>, <<"1">>}
Default == <<"default">>

NL == <<"\n">>
\* Lines of the first file: "#define MA 1", "//#define MB", "/* @name SECTION: 1"
Corpus1 ==
    { <<"#", "define", " ", "M", "A", " ", "1">> \o NL,
      <<"/", "/", "#", "define", " ", "M", "B">> \o NL,
      <<"/", "*", " ", "@", "name", " ", "SECTION", ":", " ", "1">> \o NL }
\* Lines of the second file: "  #define OC(A) 2"
Corpus2 ==
    { <<" ", " ", "#", "define", " ", "O", "(", "A", ")", " ", "2">> \o NL }

\* Lines of every shape the classifier tells apart:
\*   "#define MA 1"            "//#define MB"         "// #define MB 2"
\*   "  #define MA(A, B)  2 "  "#define MB  "         "# define\tMA"
\*   "#ifndef G"               "#define G"            "/** \name SECTION: 1 */"
\*   " * @name SECTION:"       "/* MA */"
\* and "#define MA 1" with no line terminator (the last line of a file).
TextCorpus ==
    Corpus1 \cup
    { <<"/", "/", " ", "#", "define", " ", "M", "B", " ", "2">> \o NL,
      <<" ", " ", "#", "define", " ", "M", "A", "(", "A", ",", " ", "B", ")", " ", " ", "2", " ">> \o NL,
      <<"#", "define", " ", "M", "B", " ", " ">> \o NL,
      <<"#", " ", "define", "\t", "M", "A">> \o NL,
      <<"#", "ifndef", " ", "G">> \o NL,
      <<"#", "define", " ", "G">> \o NL,
      <<"/", "*", "*", " ", "\\", "name", " ", "SECTION", ":", " ", "1", " ", "*", "/">> \o NL,
      <<" ", "*", " ", "@", "name", " ", "SECTION", ":">> \o NL,
      <<"/", "*", " ", "M", "A", " ", "*", "/">> \o NL,
      <<"#", "define", " ", "M", "A", " ", "1">> }

\* Lines that the classifier handles with the section and the inclusion guard
\* it has seen:
\*   "/* @name SECTION: 1"    " * \name SECTION: 2 */"   " * @name SECTION:"
\*   "#define MA 1"           "//#define MB"             "/* MA */"
\*   "#ifndef G"              "#define G"                "#define G 1"
ParseCorpus ==
    { <<"/", "*", " ", "@", "name", " ", "SECTION", ":", " ", "1">> \o NL,
      <<" ", "*", " ", "\\", "name", " ", "SECTION", ":", " ", "2", " ", "*", "/">> \o NL,
      <<" ", "*", " ", "@", "name", " ", "SECTION", ":">> \o NL,
      <<"#", "define", " ", "M", "A", " ", "1">> \o NL,
      <<"/", "/", "#", "define", " ", "M", "B">> \o NL,
      <<"/", "*", " ", "M", "A", " ", "*", "/">> \o NL,
      <<"#", "ifndef", " ", "G">> \o NL,
      <<"#", "define", " ", "G">> \o NL,
      <<"#", "define", " ", "G", " ", "1">> \o NL }

\* Texts of at most n lines drawn from the set C; only the last line of a
\* file can lack its terminator.
Texts(C, n) ==
    {t \in UNION {[1..k -> C] : k \in 0..n} :
        \A i \in 1..(Len(t) - 1) : t[i][Len(t[i])] = "\n"}

----------------------------------------------------------------------------
(* Setting and Config *)

\* (mutant) The Setting is given no owner among the files.
Setting_unowned(configfile, active, name, value, section) ==
    [active |-> active, name |-> name, value |-> value, section |-> section,
     configfile |-> 0]

\* Setting.__init__
Setting(configfile, active, name, value, section) ==
    [active |-> active, name |-> name, value |-> value, section |-> section,
     configfile |-> configfile]

NoCall ==
    [op |-> "none", name |-> None, arg |-> None, flag |-> FALSE, regexs |-> {},
     exc |-> "none", opened |-> {}, calls |-> <<>>,
     command |-> "none", write |-> None, ret |-> 0, stdout |-> <<>>]

\* Config.__init__ and ConfigFile.__init__ of each file, for the files t1 and
\* t2 at the paths p1 and p2; the ConfigFile objects are in Config.configfiles
\* and nothing has been read yet.
Constructed(t1, t2) ==
    /\ disk = [p \in Paths |-> IF p = P1 THEN t1 ELSE IF p = P2 THEN t2 ELSE Absent]
    /\ orig = disk
    /\ cf = [f \in Files |->
                [filename |-> IF f = 1 THEN P1 ELSE P2, templates |-> <<>>,
                 current_section |-> None, inclusion_guard |-> None, modified |-> FALSE]]
    /\ settings = <<>>
    /\ configfiles = <<1, 2>>
    /\ pc = "parse"
    /\ pos = [f \in Files |-> 1]
    /\ call = NoCall
    /\ nops = 0
    /\ flips = 0

\* The texts of Texts(C, n) in which no line occurs twice.
DistinctTexts(C, n) == {t \in Texts(C, n) : \A i, j \in 1..Len(t) : t[i] = t[j] => i = j}

\* Two files that define different names, each name once.
Init ==
    \E t1 \in DistinctTexts(Corpus1, MaxLines), t2 \in DistinctTexts(Corpus2, MaxLines2) :
        Constructed(t1, t2)

\* One file of lines of every shape, and an empty second file.
InitText == \E t1 \in Texts(TextCorpus, MaxLines) : Constructed(t1, <<>>)

\* One file of lines with sections and inclusion guards, and an empty second
\* file.
InitParse == \E t1 \in Texts(ParseCorpus, MaxParseLines) : Constructed(t1, <<>>)

\* The file parse_file is reading: the first one not yet read to its end.
Reading == CHOOSE f \in Files : pos[f] <= Len(disk[cf[f].filename]) + 1
                 /\ \A g \in Files : g < f => pos[g] > Len(disk[cf[g].filename]) + 1

\* The consumer of the tuple r that parse_file yields for a line of file f:
\* the table stores a Setting for it, a later tuple of the same name replacing
\* the earlier one.  An exception raised by _parse_line ends the program.
store_setting(f, r) ==
    /\ cf' = [cf EXCEPT ![f] = r.c]
    /\ pos' = [pos EXCEPT ![f] = @ + 1]
    /\ pc' = IF r.exc = "none" THEN "parse" ELSE "crashed"
    /\ settings' = IF r.yield
                   THEN (r.name :> Setting(f, r.active, r.name, r.value, r.section)) @@ settings
                   ELSE settings

\* One iteration of the loop of ConfigFile.parse_file, with its consumer.
parse_file_line ==
    /\ pc = "parse"
    /\ pos[Reading] <= Len(disk[cf[Reading].filename])
    /\ store_setting(Reading, parse_line(cf[Reading], disk[cf[Reading].filename][pos[Reading]]))
    /\ UNCHANGED <<disk, orig, configfiles, call, nops, flips>>

\* (mutant) current_section is left as the last line read set it.
parse_file_end_keeping_section ==
    /\ pc = "parse"
    /\ pos[Reading] = Len(disk[cf[Reading].filename]) + 1
    /\ pos' = [pos EXCEPT ![Reading] = @ + 1]
    /\ pc' = IF \A g \in Files : g # Reading => pos[g] > Len(disk[cf[g].filename]) + 1
             THEN "ready" ELSE "parse"
    /\ UNCHANGED <<disk, orig, cf, settings, configfiles, call, nops, flips>>

\* The end of ConfigFile.parse_file: the stream is exhausted.
parse_file_end ==
    /\ pc = "parse"
    /\ pos[Reading] = Len(disk[cf[Reading].filename]) + 1
    /\ cf' = [cf EXCEPT ![Reading].current_section = None]
    /\ pos' = [pos EXCEPT ![Reading] = @ + 1]
    /\ pc' = IF \A g \in Files : g # Reading => pos[g] > Len(disk[cf[g].filename]) + 1
             THEN "ready" ELSE "parse"
    /\ UNCHANGED <<disk, orig, settings, configfiles, call, nops, flips>>

----------------------------------------------------------------------------
(* Config: queries *)

\* Config.known
known(name) == name \in DOMAIN settings

\* Config.__contains__
contains(name) == name \in DOMAIN settings /\ settings[name].active

\* Config.__getitem__: self.settings[name] raises KeyError for a name that is
\* not a key.
getitem(name) ==
    IF name \in DOMAIN settings
    THEN [exc |-> "none", ret |-> settings[name].value]
    ELSE [exc |-> "KeyError", ret |-> None]

\* Config.get
get(name, default) ==
    IF name \in DOMAIN settings THEN settings[name].value ELSE default

\* obj.configfile for the obj that Config.get returns: a str or None, neither
\* of which has the attribute.
attr_configfile(obj) == [exc |-> "AttributeError", file |-> 0]

\* Config._get_configfile
get_configfile(name) ==
    IF Truthy(name) /\ name \in DOMAIN settings
    THEN attr_configfile(get(name, None))
    ELSE [exc |-> "none", file |-> configfiles[1]]

\* A call may be made once the table is populated.
Ready == pc = "ready" /\ nops < MaxOps

\* A call that may change settings and modified flags, and no file.
Mutation(c, sett, files) ==
    /\ call' = c
    /\ nops' = nops + 1
    /\ settings' = sett
    /\ cf' = files
    /\ flips' = IF \E n \in DOMAIN settings : sett[n].active # settings[n].active
                THEN flips + 1 ELSE flips
    /\ UNCHANGED <<disk, orig, configfiles, pc, pos>>

\* Config.filename: the path returned and the exception raised, if any.
Config_filename(name) ==
    LET r == get_configfile(name)
    IN  [exc |-> r.exc, ret |-> IF r.exc = "none" THEN cf[r.file].filename ELSE None]

----------------------------------------------------------------------------
(* Config: mutations *)

\* `setting != value` in Config.__setitem__ compares the Setting object with
\* value.  Setting defines no __eq__ and value is a str or None, so the
\* comparison is by identity and is true.
setting_ne(setting, value) == TRUE

\* The owning file's modified flag after Config.__setitem__.
setitem_modified(setting, value, modified) ==
    IF setting_ne(setting, value) THEN TRUE ELSE modified

\* (mutant) The assignment also makes the name active.
setitem_setting_activating(setting, value) == [setting EXCEPT !.value = value, !.active = TRUE]

\* The Setting after Config.__setitem__.
setitem_setting(setting, value) == [setting EXCEPT !.value = value]

\* Config.__setitem__
Config_setitem(name, value) ==
    /\ Ready
    /\ LET c == [NoCall EXCEPT !.op = "setitem", !.name = name, !.arg = value]
       IN  IF name \notin DOMAIN settings
           THEN Mutation([c EXCEPT !.exc = "KeyError"], settings, cf)
           ELSE LET s == settings[name]
                IN  Mutation(c,
                             [settings EXCEPT ![name] = setitem_setting(s, value)],
                             [cf EXCEPT ![s.configfile].modified = setitem_modified(s, value, @)])

\* The owning file's modified flag after Config.set on a known name.
set_modified(setting, value, modified) ==
    IF setting.value # value \/ ~setting.active THEN TRUE ELSE modified

\* The Setting after Config.set on a known name.
set_setting(setting, value) ==
    [setting EXCEPT !.value = IF value # None THEN value ELSE @, !.active = TRUE]

\* The settings and the ConfigFile objects after Config.set.
set_effect(name, value) ==
    IF name \in DOMAIN settings
    THEN [settings |-> [settings EXCEPT ![name] = set_setting(settings[name], value)],
          cf |-> [cf EXCEPT ![settings[name].configfile].modified =
                                set_modified(settings[name], value, @)]]
    ELSE [settings |-> (name :> Setting(get_configfile(name).file, TRUE, name, value, None))
                           @@ settings,
          cf |-> [cf EXCEPT ![get_configfile(name).file].modified = TRUE]]

\* Config.set
Config_set(name, value) ==
    /\ Ready
    /\ Mutation([NoCall EXCEPT !.op = "set", !.name = name, !.arg = value],
                set_effect(name, value).settings, set_effect(name, value).cf)

\* (mutant) The flag assigned the old active state instead of being raised.
unset_modified_assigned(setting, modified) == setting.active

\* The owning file's modified flag after Config.unset on a known name.
unset_modified(setting, modified) == IF setting.active THEN TRUE ELSE modified

\* (mutant) The value is cleared as well.
unset_setting_clearing(setting) == [setting EXCEPT !.active = FALSE, !.value = <<>>]

\* The Setting after Config.unset on a known name.
unset_setting(setting) == [setting EXCEPT !.active = FALSE]

\* (mutant) The flag raised is that of the first file, not of the owner.
unset_effect_marking_first(name) ==
    IF name \notin DOMAIN settings
    THEN [settings |-> settings, cf |-> cf]
    ELSE [settings |-> [settings EXCEPT ![name] = unset_setting(settings[name])],
          cf |-> [cf EXCEPT ![configfiles[1]].modified =
                                unset_modified(settings[name], @)]]

\* The settings and the ConfigFile objects after Config.unset.
unset_effect(name) ==
    IF name \notin DOMAIN settings
    THEN [settings |-> settings, cf |-> cf]
    ELSE [settings |-> [settings EXCEPT ![name] = unset_setting(settings[name])],
          cf |-> [cf EXCEPT ![settings[name].configfile].modified =
                                unset_modified(settings[name], @)]]

\* Config.unset
Config_unset(name) ==
    /\ Ready
    /\ Mutation([NoCall EXCEPT !.op = "unset", !.name = name],
                unset_effect(name).settings, unset_effect(name).cf)

\* The adapters the model calls Config.adapt with: functions of
\* (name, active, section) to a boolean.
Adapters == {"full", "none", "flip", "sectioned"}
adapter(a, name, active, section) ==
    CASE a = "full" -> TRUE
      [] a = "none" -> FALSE
      [] a = "flip" -> ~active
      [] a = "sectioned" -> section # None

\* (mutant) The flag of the owner of every setting the loop visits is set.
loop_modified_visited(f, old, new) ==
    IF \E n \in DOMAIN old : old[n].configfile = f THEN TRUE ELSE cf[f].modified

\* The modified flag of file f after a loop over all settings that sets the
\* flag of the owner of each setting whose active field the loop changed.
loop_modified(f, old, new) ==
    IF \E n \in DOMAIN old : old[n].configfile = f /\ new[n].active # old[n].active
    THEN TRUE ELSE cf[f].modified

\* The arguments of the call of the adapter that the loop of Config.adapt
\* makes for each entry of settings.
adapter_calls ==
    [n \in DOMAIN settings |-> <<settings[n].name, settings[n].active, settings[n].section>>]

\* Config.adapt
Config_adapt(a) ==
    /\ Ready
    /\ LET calls == adapter_calls
           sett == [n \in DOMAIN settings |->
                       [settings[n] EXCEPT !.active =
                           adapter(a, calls[n][1], calls[n][2], calls[n][3])]]
       IN  Mutation([NoCall EXCEPT !.op = "adapt", !.arg = <<a>>, !.calls = calls],
                    sett,
                    [f \in Files |-> [cf[f] EXCEPT !.modified = loop_modified(f, settings, sett)]])

\* The patterns the model calls Config.change_matching with: literal words.
Patterns == {<<"M">>, <<"O">>}

\* (mutant) Every name matches.
regex_search_any(regexs, name) == TRUE

\* regex.search(name) for the alternation '|'.join(regexs) of literal words.
regex_search(regexs, name) == \E p \in regexs : Occurs(p, name)

\* Config.change_matching
Config_change_matching(regexs, enable) ==
    /\ Ready
    /\ LET sett == IF regexs = {} THEN settings
                   ELSE [n \in DOMAIN settings |->
                           IF regex_search(regexs, settings[n].name)
                           THEN [settings[n] EXCEPT !.active = enable]
                           ELSE settings[n]]
       IN  Mutation([NoCall EXCEPT !.op = "change_matching", !.regexs = regexs, !.flag = enable],
                    sett,
                    [f \in Files |-> [cf[f] EXCEPT !.modified = loop_modified(f, settings, sett)]])

----------------------------------------------------------------------------
(* Writing *)

\* (mutant) The early return taken whatever the target is.
write_skips_any_target(c, target) == ~c.modified

\* The early return of ConfigFile.write: no I/O.
write_skips(c, target) == ~c.modified /\ target = c.filename

\* ConfigFile.write of the ConfigFile c on the file system d: the file system
\* afterwards, whether the target was opened for writing, and the exception
\* raised, if any.
ConfigFile_write(c, sett, filename, d) ==
    LET target == IF filename = None THEN c.filename ELSE filename
    IN  IF write_skips(c, target)
        THEN [disk |-> d, opened |-> FALSE, exc |-> "none"]
        ELSE [disk |-> [d EXCEPT ![target] = write_to_stream(c.templates, sett)],
              opened |-> TRUE,
              exc |-> IF Renderable(c.templates, sett, 1) < Len(c.templates)
                      THEN "KeyError" ELSE "none"]

\* The loop of Config.write from the i-th file on, for the ConfigFile objects
\* files and the settings sett: the file system afterwards, the files that
\* opened their target, and the exception that ended the loop.  r is what
\* ConfigFile.write did for the i-th file.
RECURSIVE write_loop(_, _, _, _, _, _)
write_next(files, sett, i, filename, opened, r) ==
    IF r.exc # "none"
    THEN [disk |-> r.disk, exc |-> r.exc,
          opened |-> IF r.opened THEN opened \cup {configfiles[i]} ELSE opened]
    ELSE write_loop(files, sett, i + 1, filename, r.disk,
                    IF r.opened THEN opened \cup {configfiles[i]} ELSE opened)

write_loop(files, sett, i, filename, d, opened) ==
    IF i > Len(configfiles) THEN [disk |-> d, opened |-> opened, exc |-> "none"]
    ELSE write_next(files, sett, i, filename, opened,
                    ConfigFile_write(files[configfiles[i]], sett, filename, d))

\* The effect of Config.write(filename), r being what its loop did.
written(filename, r) ==
    /\ call' = [NoCall EXCEPT !.op = "write", !.arg = filename, !.exc = r.exc,
                              !.opened = r.opened]
    /\ disk' = r.disk

\* Config.write
Config_write(filename) ==
    /\ Ready
    /\ written(filename, write_loop(cf, settings, 1, filename, disk, {}))
    /\ nops' = nops + 1
    /\ UNCHANGED <<orig, cf, settings, configfiles, pc, pos, flips>>

----------------------------------------------------------------------------
(* ConfigTool *)

\* The commands the model runs ConfigTool.main with.
Commands == {"get", "set", "unset"}

\* args.value of the command set: VALUE is declared with nargs='?' and
\* default='', so a command line without VALUE (None here) gives ''.
parser_set_value(value) == IF value = None THEN <<>> ELSE value

\* The end of ConfigTool.main: the status returned, and the process is over.
main_return(c, status) ==
    /\ call' = [c EXCEPT !.ret = status]
    /\ nops' = nops + 1
    /\ pc' = "exited"
    /\ UNCHANGED <<orig, configfiles, pos>>

\* The end of ConfigTool.main after a command that changed the table to r:
\* self.config.write(self.parser_args.write), w being what its loop did.
main_write(c, r, w) ==
    /\ settings' = r.settings
    /\ cf' = r.cf
    /\ disk' = w.disk
    /\ flips' = IF \E n \in DOMAIN settings : r.settings[n].active # settings[n].active
                THEN flips + 1 ELSE flips
    /\ main_return([c EXCEPT !.opened = w.opened, !.exc = w.exc], 0)

\* The command get of ConfigTool.main.
main_get(c, symbol) ==
    /\ main_return([c EXCEPT !.stdout = IF contains(symbol) /\ Truthy(getitem(symbol).ret)
                                        THEN getitem(symbol).ret \o <<"\n">> ELSE <<>>],
                   IF contains(symbol) THEN 0 ELSE 1)
    /\ UNCHANGED <<disk, cf, settings, flips>>

\* The command set of ConfigTool.main.
main_set(c, symbol, value, force, write) ==
    IF ~force /\ symbol \notin DOMAIN settings
    THEN /\ main_return([c EXCEPT !.exc = Config_filename(symbol).exc], 1)
         /\ UNCHANGED <<disk, cf, settings, flips>>
    ELSE main_write(c, set_effect(symbol, value),
                    write_loop(set_effect(symbol, value).cf, set_effect(symbol, value).settings,
                               1, write, disk, {}))

\* The command unset of ConfigTool.main.
main_unset(c, symbol, write) ==
    main_write(c, unset_effect(symbol),
               write_loop(unset_effect(symbol).cf, unset_effect(symbol).settings,
                          1, write, disk, {}))

\* ConfigTool.main for the command line "[--force] [--write FILE] command
\* symbol [value]" (value = None: no VALUE given), run on the table as it is
\* after the files were read.
ConfigTool_main(command, symbol, value, force, write) ==
    /\ pc = "ready" /\ nops = 0
    /\ LET c == [NoCall EXCEPT !.op = "main", !.command = command, !.name = symbol,
                               !.arg = value, !.flag = force, !.write = write]
       IN  CASE command = "get" -> main_get(c, symbol)
             [] command = "set" -> main_set(c, symbol, parser_set_value(value), force, write)
             [] command = "unset" -> main_unset(c, symbol, write)

----------------------------------------------------------------------------

Next ==
    \/ parse_file_line
    \/ parse_file_end
    \/ \E n \in Names, v \in Values : Config_setitem(n, v)
    \/ \E n \in Names, v \in Values \cup {None} : Config_set(n, v)
    \/ \E n \in Names : Config_unset(n)
    \/ \E a \in Adapters : Config_adapt(a)
    \/ \E r \in SUBSET Patterns, e \in BOOLEAN : Config_change_matching(r, e)
    \/ \E p \in {None, P1, Out} : Config_write(p)
    \/ \E c \in Commands, n \in Names, v \in Values \cup {None}, o \in BOOLEAN, w \in {None, Out} :
          ConfigTool_main(c, n, v, o, w)

Spec == Init /\ [][Next]_vars

\* The calls made on the tables of InitText.
NextText ==
    \/ parse_file_line
    \/ parse_file_end
    \/ nops < MaxTextOps /\ \E n \in {MA, MB} : Config_set(n, None)
    \/ nops < MaxTextOps /\ \E n \in {MA, MB} : Config_setitem(n, <<"2">>)
    \/ nops < MaxTextOps /\ Config_write(None)

SpecText == InitText /\ [][NextText]_vars

\* The calls made on the tables of InitParse.
NextParse ==
    \/ parse_file_line
    \/ parse_file_end
    \/ nops < MaxParseOps /\ Config_set(MA, None)
    \/ nops < MaxParseOps /\ Config_write(None)

SpecParse == InitParse /\ [][NextParse]_vars

----------------------------------------------------------------------------
(* Claims *)

\* The target of ConfigFile.write of file f in the call c.
Target(f, c) == IF c.arg = None THEN cf[f].filename ELSE c.arg

\* Whether some template of some file names n.
HasTemplate(n) ==
    \E f \in Files : \E i \in 1..Len(cf[f].templates) :
        ~cf[f].templates[i].isstr /\ cf[f].templates[i].name = n

\* C1: a write opens the target of a file if and only if the file is modified
\* or the target is not the file's own path; a path that no file opened keeps
\* its content; and a write() that is the first call after parsing opens
\* nothing and leaves every file as it was.
C1_WriteOpensIffModifiedOrOtherTarget ==
    [][call'.op = "write" =>
          /\ \A f \in Files :
                f \in call'.opened <=> (cf[f].modified \/ Target(f, call') # cf[f].filename)
          /\ \A p \in Paths :
                disk'[p] # disk[p] => \E f \in call'.opened : Target(f, call') = p
          /\ (nops = 0 /\ call'.arg = None) => (call'.opened = {} /\ disk' = orig)]_vars

\* C1 witness: the first call after parsing a non-empty file was write(), and
\* it opened nothing.
C1_Witness ==
    /\ call.op = "write" /\ call.arg = None /\ nops = 1
    /\ call.opened = {}
    /\ orig[P1] # <<>> /\ disk = orig

\* C2: the modified flag of every file starts false, no call ever turns it
\* from true to false, and every write on a modified file opens its target.
C2_ModifiedIsSticky ==
    /\ \A f \in Files : ~cf[f].modified
    /\ [][\A f \in Files :
             cf[f].modified =>
                 /\ cf'[f].modified
                 /\ call'.op = "write" => f \in call'.opened]_vars

\* C2 witness: after a call that changed an active flag and a call that
\* changed it back, write() opened file 1 and wrote the very lines the file
\* held before.
C2_Witness ==
    /\ call.op = "write" /\ call.arg = None /\ nops = 3 /\ flips = 2
    /\ 1 \in call.opened
    /\ orig[P1] # <<>> /\ disk[P1] = orig[P1]
    /\ \A n \in DOMAIN settings : HasTemplate(n)

\* C3: unset of an unknown name, change_matching with no pattern, and set of
\* a known, active name with the value omitted or equal to the current one
\* leave every Setting and every modified flag as they were.
C3_NoOpMutationsChangeNothing ==
    [][(\/ call'.op = "unset" /\ call'.name \notin DOMAIN settings
        \/ call'.op = "change_matching" /\ call'.regexs = {}
        \/ /\ call'.op = "set"
           /\ call'.name \in DOMAIN settings
           /\ settings[call'.name].active
           /\ call'.arg \in {None, settings[call'.name].value})
       => /\ settings' = settings
          /\ \A f \in Files : cf'[f].modified = cf[f].modified]_vars

\* C5: for a name that is not active, config[name] raises KeyError; a name
\* that is known and inactive is not contained and is known.
C5_GetitemFailsUnlessActive ==
    pc = "ready" =>
        \A n \in Names :
            /\ (known(n) /\ ~settings[n].active) => (~contains(n) /\ known(n))
            /\ ~contains(n) => getitem(n).exc = "KeyError"

\* C6: get(name, default) is the value of name if name is active and default
\* otherwise.
C6_GetReturnsValueIffActive ==
    pc = "ready" =>
        \A n \in Names :
            get(n, Default) = IF contains(n) THEN settings[n].value ELSE Default

\* C7: config[name] = value on a known name marks the owning file modified if
\* and only if value differs from the current value.
C7_SetitemMarksModifiedIffValueDiffers ==
    [][(call'.op = "setitem" /\ call'.name \in DOMAIN settings) =>
          LET s == settings[call'.name]
          IN  cf'[s.configfile].modified <=>
                  (cf[s.configfile].modified \/ call'.arg # s.value)]_vars

\* C8: config[name] = value changes neither the set of known names nor any
\* active flag; on an unknown name it raises KeyError and changes no Setting
\* and no ConfigFile, on a known name it raises nothing.
C8_SetitemKeepsActivationAndNames ==
    [][call'.op = "setitem" =>
          /\ DOMAIN settings' = DOMAIN settings
          /\ \A n \in DOMAIN settings : settings'[n].active = settings[n].active
          /\ call'.exc = IF call'.name \in DOMAIN settings THEN "none" ELSE "KeyError"
          /\ call'.name \notin DOMAIN settings => (settings' = settings /\ cf' = cf)]_vars

\* C8 witness: a value was assigned to a known, inactive name, which is still
\* inactive.
C8_Witness ==
    /\ call.op = "setitem" /\ call.exc = "none"
    /\ call.name \in DOMAIN settings
    /\ ~settings[call.name].active
    /\ settings[call.name].value = call.arg /\ call.arg # <<>>

C10_FilenameOfOwnerOrFirstFile ==
    pc = "ready" =>
        \A n \in Names \cup {None} :
            /\ Config_filename(n).exc = "none"
            /\ Config_filename(n).ret =
                  IF n \in DOMAIN settings THEN cf[settings[n].configfile].filename
                  ELSE cf[configfiles[1]].filename

\* What the i-th line of file 1 was when it was read, less its terminator.
OrigLine(i) == rstrip(orig[P1][i], {"\r", "\n"})

\* Whether the Setting that the i-th template of file 1 names has the active
\* state and the value that the i-th line gave it.
AsParsed(i) ==
    LET m == define_line_regexp(OrigLine(i))
        s == settings[cf[1].templates[i].name]
    IN  s.active = ~Truthy(m.commented_out) /\ s.value = m.value

\* C4: when file 1 is rewritten, every verbatim line and every define line
\* whose Setting is as that line set it is written as it was read (with the
\* line terminator).
C4_UntouchedLinesReproduced ==
    (call.op = "write" /\ call.arg = None /\ 1 \in call.opened) =>
        \A i \in 1..Len(orig[P1]) :
            (cf[1].templates[i].isstr \/ AsParsed(i)) =>
                (i <= Len(disk[P1]) /\ disk[P1][i] = OrigLine(i) \o <<"\n">>)

\* The prefix of the i-th line of file 1 as it was read: the define keyword,
\* the name, the arguments and the whitespace that follows them.
OrigPrefix(i) ==
    LET m == define_line_regexp(OrigLine(i))
    IN  m.define \o m.name \o m.arguments \o m.separator

\* The prefix put before the value v: a space added to a prefix that ends in
\* none when v is not empty, the trailing whitespace removed when v is empty.
SpacedPrefix(prefix, v) ==
    IF v = <<>> THEN rstrip(prefix, Space)
    ELSE IF prefix[Len(prefix)] \in Space THEN prefix
    ELSE prefix \o <<" ">>

\* C11: when file 1 is rewritten, the line of every define that the file held
\* is the indentation, "//" unless the Setting is active, the prefix spaced
\* as the value requires and the value, less the trailing whitespace.
C11_DefineLineRendered ==
    (call.op = "write" /\ call.arg = None /\ 1 \in call.opened) =>
        \A i \in 1..Len(cf[1].templates) :
            ~cf[1].templates[i].isstr =>
                LET s == settings[cf[1].templates[i].name]
                IN  disk[P1][i] =
                        rstrip(define_line_regexp(OrigLine(i)).indentation
                               \o (IF s.active THEN <<>> ELSE <<"/", "/">>)
                               \o SpacedPrefix(OrigPrefix(i), s.value)
                               \o s.value, Space) \o <<"\n">>

\* C11 witness: "//#define MB" after set(MB) was written as "#define MB",
\* or "# define\tMA" after config[MA] = "2" as "# define\tMA 2".
C11_Witness ==
    /\ call.op = "write" /\ call.arg = None /\ 1 \in call.opened
    /\ \E i \in 1..Len(orig[P1]) :
          \/ /\ OrigLine(i) = <<"/", "/", "#", "define", " ", "M", "B">>
             /\ disk[P1][i] = <<"#", "define", " ", "M", "B", "\n">>
          \/ /\ OrigLine(i) = <<"#", " ", "define", "\t", "M", "A">>
             /\ disk[P1][i] = <<"#", " ", "define", "\t", "M", "A", " ", "2", "\n">>

\* C12: adapt calls the adapter once for each known setting, with its name,
\* its active state before the call and its section; the result becomes the
\* active state and nothing else of the Setting changes; the names stay the
\* same; and the modified flag of a file is raised if and only if a setting
\* that the file owns changed its active state.
C12_AdaptAppliesAdapter ==
    [][call'.op = "adapt" =>
          /\ DOMAIN call'.calls = DOMAIN settings
          /\ DOMAIN settings' = DOMAIN settings
          /\ \A n \in DOMAIN settings :
                /\ call'.calls[n] = <<n, settings[n].active, settings[n].section>>
                /\ settings'[n] =
                      [settings[n] EXCEPT !.active =
                          adapter(call'.arg[1], n, settings[n].active, settings[n].section)]
          /\ \A f \in Files :
                /\ cf'[f].modified <=>
                      (\/ cf[f].modified
                       \/ \E n \in DOMAIN settings :
                             /\ settings[n].configfile = f
                             /\ settings'[n].active # settings[n].active)
                /\ cf'[f] = [cf[f] EXCEPT !.modified = cf'[f].modified]]_vars

\* C12 witness: adapt with the adapter that activates everything, as the
\* first call: MB of file 1 became active and file 1 is modified, OC of file 2
\* already was and file 2 is not.
C12_Witness ==
    /\ call.op = "adapt" /\ call.arg = <<"full">> /\ nops = 1 /\ flips = 1
    /\ MB \in DOMAIN settings /\ settings[MB].active /\ ~call.calls[MB][2]
    /\ OC \in DOMAIN settings /\ settings[OC].active /\ call.calls[OC][2]
    /\ cf[1].modified /\ ~cf[2].modified

\* C13: change_matching with at least one pattern sets the active state of
\* every known setting whose name contains a pattern to enable and leaves
\* every other Setting as it was; the names stay the same; and the modified
\* flag of a file changes only if a matching setting that the file owns
\* changed its active state.
C13_ChangeMatchingScope ==
    [][(call'.op = "change_matching" /\ call'.regexs # {}) =>
          /\ DOMAIN settings' = DOMAIN settings
          /\ \A n \in DOMAIN settings :
                settings'[n] =
                    IF \E p \in call'.regexs : Occurs(p, n)
                    THEN [settings[n] EXCEPT !.active = call'.flag]
                    ELSE settings[n]
          /\ \A f \in Files :
                cf'[f] # cf[f] =>
                    /\ cf'[f] = [cf[f] EXCEPT !.modified = TRUE]
                    /\ \E n \in DOMAIN settings :
                          /\ \E p \in call'.regexs : Occurs(p, n)
                          /\ settings[n].configfile = f
                          /\ settings[n].active # call'.flag]_vars

\* C13 witness: after unset(OC), change_matching(["M"], True) made MA and MB
\* active and left OC inactive.
C13_Witness ==
    /\ call.op = "change_matching" /\ call.regexs = {<<"M">>} /\ call.flag
    /\ nops = 2 /\ flips = 2
    /\ {MA, MB, OC} \subseteq DOMAIN settings
    /\ settings[MA].active /\ settings[MB].active /\ ~settings[OC].active

\* C14: unset raises nothing; on a known name it makes the Setting inactive
\* and changes nothing else of it, and raises the modified flag of the owner
\* if and only if the setting was active; on an unknown name it changes no
\* Setting and no ConfigFile.
C14_UnsetDeactivates ==
    [][call'.op = "unset" =>
          /\ call'.exc = "none"
          /\ IF call'.name \in DOMAIN settings
             THEN LET s == settings[call'.name]
                  IN  /\ settings' = [settings EXCEPT ![call'.name].active = FALSE]
                      /\ cf' = [cf EXCEPT ![s.configfile].modified = (@ \/ s.active)]
             ELSE settings' = settings /\ cf' = cf]_vars

\* C14 witness: unset as the first call on MA, which was active with the value
\* "1": MA is known and inactive with that value and its file is modified.
C14_Witness ==
    /\ call.op = "unset" /\ call.name = MA /\ nops = 1 /\ flips = 1
    /\ MA \in DOMAIN settings /\ ~settings[MA].active /\ settings[MA].value = <<"1">>
    /\ cf[1].modified /\ ~cf[2].modified

\* C15: the command "set SYMBOL" with no VALUE, for a known SYMBOL, makes the
\* setting active and leaves its value as it was, in the table and in the
\* lines written for each file.
C15_CliSetWithoutValueKeepsValue ==
    [][(/\ call'.op = "main" /\ call'.command = "set" /\ call'.arg = None
        /\ call'.name \in DOMAIN settings) =>
          /\ settings'[call'.name].active
          /\ settings'[call'.name].value = settings[call'.name].value
          /\ \A f \in Files :
                write_to_stream(cf'[f].templates, settings')
                    = write_to_stream(cf[f].templates,
                                      [settings EXCEPT ![call'.name].active = TRUE])]_vars

\* The line of file f that parse_file reads next, less its terminator.
NextLine(f) == rstrip(disk[cf[f].filename][pos[f]], {"\r", "\n"})

\* Whether this step is parse_file reading a line of file f.
ReadsLine(f) == pc = "parse" /\ pos[f] <= Len(disk[cf[f].filename]) /\ pos'[f] = pos[f] + 1

\* Whether this step appended a tuple template to file f, that is, whether
\* _parse_line returned a tuple.
Yields(f) ==
    /\ Len(cf'[f].templates) = Len(cf[f].templates) + 1
    /\ ~cf'[f].templates[Len(cf'[f].templates)].isstr

\* The title of the last section marker among the first k of lines, None if
\* there is no marker among them.
RECURSIVE LastSection(_, _)
LastSection(lines, k) ==
    IF k = 0 THEN None
    ELSE IF section_line_regexp(rstrip(lines[k], {"\r", "\n"})).matched
    THEN section_line_regexp(rstrip(lines[k], {"\r", "\n"})).section
    ELSE LastSection(lines, k - 1)

\* C16: the Setting stored for a tuple that parse_file yields for a line has
\* as its section the title of the last section marker before that line in the
\* file, None if there is none; and once the files have been read the
\* current_section of every file is None.
C16_SectionOfLastMarker ==
    /\ [](pc = "ready" => \A f \in Files : cf[f].current_section = None)
    /\ [][\A f \in Files :
             (ReadsLine(f) /\ Yields(f)) =>
                 settings'[define_line_regexp(NextLine(f)).name].section
                     = LastSection(disk[cf[f].filename], pos[f] - 1)]_vars

\* C16 witness: the file "/* @name SECTION: 1", "#define MA 1", "//#define MB"
\* has been read; MA and MB have the section "1".
C16_Witness ==
    /\ pc = "ready"
    /\ Len(orig[P1]) = 3
    /\ section_line_regexp(OrigLine(1)).section = <<"1">>
    /\ {MA, MB} \subseteq DOMAIN settings
    /\ settings[MA].section = <<"1">> /\ settings[MB].section = <<"1">>
    /\ cf[1].current_section = None

\* Whether one of the first k of lines is an #ifndef line.
HasIfndef(lines, k) ==
    \E j \in 1..k : ifndef_line_regexp(rstrip(lines[j], {"\r", "\n"})).matched

\* C17: the inclusion guard of a file changes only from None, to the name of
\* the first #ifndef line of the file; a define line whose name is the guard
\* captured so far and whose value is empty is stored as it is and changes no
\* Setting; every other define line yields a tuple, and the Setting stored for
\* it has the active state, the name and the value of the line.
C17_GuardIsNoSetting ==
    [][\A f \in Files :
          ReadsLine(f) =>
              LET m == define_line_regexp(NextLine(f))
                  g == cf[f].inclusion_guard
              IN  /\ cf'[f].inclusion_guard # g =>
                        /\ g = None
                        /\ ifndef_line_regexp(NextLine(f)).matched
                        /\ cf'[f].inclusion_guard = ifndef_line_regexp(NextLine(f)).inclusion_guard
                        /\ ~HasIfndef(disk[cf[f].filename], pos[f] - 1)
                  /\ m.matched =>
                        IF g # None /\ m.name = g /\ m.value = <<>>
                        THEN /\ cf'[f].templates = Append(cf[f].templates, StrTemplate(NextLine(f)))
                             /\ settings' = settings
                        ELSE /\ Yields(f)
                             /\ m.name \in DOMAIN settings'
                             /\ settings'[m.name].active = ~Truthy(m.commented_out)
                             /\ settings'[m.name].name = m.name
                             /\ settings'[m.name].value = m.value]_vars

\* C17 witness: the file "#ifndef G", "#define G", "#define G 1" has been
\* read; the guard is G, the second line is a verbatim template and the third
\* made G a setting with the value "1".
C17_Witness ==
    /\ pc = "ready"
    /\ Len(orig[P1]) = 3
    /\ cf[1].inclusion_guard = <<"G">>
    /\ cf[1].templates[2] = StrTemplate(<<"#", "define", " ", "G">>)
    /\ ~cf[1].templates[3].isstr
    /\ <<"G">> \in DOMAIN settings /\ settings[<<"G">>].value = <<"1">>

\* C18: parse_file raises nothing; the templates of a file are as many as
\* the lines read from it; and a write that opened the file wrote as many
\* lines as the file held.
C18_OneTemplatePerLine ==
    /\ pc # "crashed"
    /\ \A f \in Files :
          /\ pos[f] <= Len(orig[cf[f].filename]) + 1 => Len(cf[f].templates) = pos[f] - 1
          /\ pos[f] > Len(orig[cf[f].filename]) => Len(cf[f].templates) = Len(orig[cf[f].filename])
          /\ (call.op = "write" /\ call.arg = None /\ f \in call.opened) =>
                Len(disk[cf[f].filename]) = Len(orig[cf[f].filename])

\* The files of the table.
Owners == {configfiles[i] : i \in 1..Len(configfiles)}

\* C19: at every moment a name is known if and only if it is a key of
\* settings, an active name is known, the Setting stored under a key has that
\* key as its name and a file of configfiles as its owner; and no step removes
\* a key.
C19_TableInvariants ==
    /\ [](/\ \A n \in Names \cup DOMAIN settings :
                /\ known(n) <=> n \in DOMAIN settings
                /\ contains(n) => known(n)
          /\ \A n \in DOMAIN settings :
                /\ settings[n].name = n
                /\ settings[n].configfile \in Owners)
    /\ [][DOMAIN settings \subseteq DOMAIN settings']_vars

\* C19 witness: three calls have been made, two of them changed an active
\* state, and a name that no file defines has been added by set.
C19_Witness ==
    /\ nops = 3 /\ flips = 2
    /\ call.op \in {"adapt", "change_matching", "unset", "setitem"}
    /\ \E n \in DOMAIN settings : ~HasTemplate(n) /\ settings[n].configfile = configfiles[1]
    /\ \E n \in DOMAIN settings : HasTemplate(n) /\ settings[n].configfile = configfiles[2]

\* C20: a call changes the modified flag of a file only if the file owns a
\* Setting that the call changed or added, or the Setting that the call names;
\* set, unset and config[name] = value on a known name leave every file but
\* the owner as it was; and write() opens exactly the files whose modified
\* flag is true and leaves the paths of the others as they were.
C20_DirtyTrackingPerFile ==
    [][/\ \A f \in Files :
             cf'[f].modified # cf[f].modified =>
                 \/ \E n \in DOMAIN settings' :
                       /\ settings'[n].configfile = f
                       /\ n \in DOMAIN settings => settings'[n] # settings[n]
                 \/ /\ call'.op \in {"set", "setitem", "main"}
                    /\ call'.name \in DOMAIN settings
                    /\ settings[call'.name].configfile = f
       /\ (call'.op \in {"set", "unset", "setitem"} /\ call'.name \in DOMAIN settings) =>
             \A f \in Files : f # settings[call'.name].configfile => cf'[f] = cf[f]
       /\ (call'.op = "write" /\ call'.arg = None) =>
             /\ call'.opened = {f \in Files : cf[f].modified}
             /\ \A f \in Files :
                   ~cf[f].modified => disk'[cf[f].filename] = disk[cf[f].filename]]_vars

\* C20 witness: after unset(OC), whose owner is file 2, write() opened file 2
\* alone and rewrote it, file 1 being unmodified.
C20_Witness ==
    /\ call.op = "write" /\ call.arg = None /\ nops = 2 /\ flips = 1
    /\ call.opened = {2}
    /\ OC \in DOMAIN settings /\ ~settings[OC].active
    /\ ~cf[1].modified /\ cf[2].modified
    /\ orig[P1] # <<>> /\ disk[P1] = orig[P1] /\ disk[P2] # orig[P2]

====
